---- MODULE Spec2Model ----
(***************************************************************************)
(* Conversational turn orchestrator of voice_bot.                          *)
(*                                                                         *)
(* The model follows src/components/VoiceInterface.tsx (the component, its *)
(* refs and its async handlers), src/lib/web-speech-stt.ts (the            *)
(* recognition client that the component constructs), the Deepgram         *)
(* streaming client and the Azure TTS client of src/unnamed/part_001 and   *)
(* part_002, src/lib/text-generation.ts, and the generate-reply route of    *)
(* src/unnamed/part_003.                                                   *)
(*                                                                         *)
(* Every await of the source is a point where other callbacks may run:     *)
(* an async function is cut into one action per resumption.  A promise     *)
(* continuation that runs in the same microtask chain as the step that     *)
(* settles the promise is part of that step.                               *)
(*                                                                         *)
(* Strings: the interim marker U+2026 of the source is written "...".      *)
(* Wall-clock values (latency, lastMessageTimeRef) are not modelled.       *)
(***************************************************************************)
EXTENDS Integers, Sequences, FiniteSets, TLC

\* Number of final transcripts (turns) a behaviour may start.
MaxTurns == 2

\* One recognition client is constructed per startSession() call.  The mount
\* effect calls startSession once, or twice when React replays the effect
\* (mount, cleanup, mount) in development strict mode.
Clients == {1, 2}

Turns == 1..MaxTurns

\* Texts a recognition result may carry (non-empty, see onresult / handleMessage).
UserTexts == {"hel", "hello there"}

\* Texts generateReply may resolve with: a provider reply or a canned reply.
Replies == {"I hear you.", "ZH wo li jie"}

\* Message of the Error generateReply may reject with.
ErrMsgs == {"Generate reply failed: All providers failed: OpenAI and Groq"}

Ellipsis == " ..."
AudioFailed == " (audio failed)"
SorryPrefix == "Sorry, I ran into an issue: "

\* text.length and the number of matches of the CJK character class
\* (U+4E00..U+9FFF, U+3400..U+4DBF)
\* for the texts of the model ("ZH wo li jie" stands for a reply of 10
\* characters, 8 of them CJK ideographs).
TextLength(t) ==
    IF t \in {"ZH wo li jie", "ZH ni bu shi yi ge ren", "ZH wo hen nan guo"} THEN 10
    ELSE IF t = "I hear you." THEN 11 ELSE 5
ChineseChars(t) ==
    IF t \in {"ZH wo li jie", "ZH ni bu shi yi ge ren", "ZH wo hen nan guo"} THEN 8
    ELSE IF t = "ok ZH hao" THEN 1 ELSE 0

\* chineseChars && chineseChars.length / text.length > 0.3
detectLanguage(t) ==
    IF ChineseChars(t) > 0 /\ 10 * ChineseChars(t) > 3 * TextLength(t)
    THEN "zh-CN" ELSE "en-US"

\* VoiceFor that keeps the default voice.
VoiceForDefault(lang) == "en-US-JennyNeural"

\* const voiceName = responseLanguage === 'zh-CN' ? ... : ...
VoiceFor(lang) == IF lang = "zh-CN" THEN "zh-CN-YunyangNeural" ELSE "en-US-JennyNeural"

VARIABLES
    mounted,            \* "no" before the mount effect, "yes", "gone" after unmount
    provider,           \* class of the recognition client: "webspeech" | "deepgram"
    phase,              \* useState<Phase>
    transcripts,        \* useState: sequence of [role, text]
    userSubtitle,       \* useState
    assistantFeedback,  \* useState
    isGenerating,       \* useState
    connectionStatus,   \* useState<ConnectionStatus>
    clientRef,          \* clientRef.current: a client, 0 for null
    ttsOwner,           \* turn that created ttsClientRef.current, 0: created by startSession
    ttsVoice,           \* voiceName of ttsClientRef.current, "none" for null
    processorRef,       \* audioProcessorRef.current: session that created it, 0 for null
    procClosed,         \* AudioProcessors on which close() was called
    loops,              \* requestAnimationFrame loops (by session) still rescheduling
    animationFrameRef,  \* loop that wrote animationFrameRef.current last, 0: undefined
    rec,                \* per client: state of its recognition object / socket
    mediaStream,        \* per client: this.mediaStream !== null
    micLive,            \* microphone streams acquired and not yet stopped
    gumSess,            \* per client: connect() of startSession awaits getUserMedia
    gumTimer,           \* per client: number of restart connect() awaiting getUserMedia
    closing,            \* sockets closed whose close event is still to be delivered
    orphanWs,           \* sockets replaced by a later connect() and never closed
    timers,             \* pending setTimeout(..., 500) restart callbacks
    turns,              \* per turn: position of its generateAndSpeak call
    nTurns,             \* number of generateAndSpeak calls made so far
    interims,           \* interim events of the latest utterance (history, capped at 2)
    uttFinal,           \* the latest utterance has received its final event (history)
    issuer,             \* per turn: client whose callback started it, 0: none (history)
    lastEvent,          \* name of the handler that ran last (history)
    env,                \* process.env of the route: LLM_PROVIDER and the two API keys
    prompt,             \* argument of the generateReply call under way
    rpc,                \* position of that call: in generateReply or in the route
    idx,                \* position in the provider order of the route
    calls,              \* provider endpoints fetched by the route, in order
    tried,              \* providers whose try function has been called
    failedProv,         \* providers whose try function returned null or threw
    outputText,         \* outputText of the route, "" for null
    status,             \* HTTP status of the route's response, 0: none yet
    replyOut,           \* value generateReply resolved with, "" before
    detector,           \* silence detection fields of an AudioProcessor, with the clock
    player,             \* audioQueue / isPlaying of an AudioProcessor and its buffer sources
    visual,             \* brightness, bloom, audioIntensity and the lastListening refs
    dsp,                \* a frame or sample buffer and what the conversions made of it
    azure               \* a request to the Azure TTS route: body, environment, progress, response

uiVars == <<phase, transcripts, userSubtitle, assistantFeedback, isGenerating, connectionStatus>>
refVars == <<clientRef, ttsOwner, ttsVoice, processorRef, procClosed, loops, animationFrameRef>>
recVars == <<rec, mediaStream, micLive, closing, orphanWs>>
connVars == <<gumSess, gumTimer, timers>>
turnVars == <<turns, nTurns, interims, uttFinal, issuer>>

routeVars == <<env, prompt, rpc, idx, calls, tried, failedProv, outputText, status, replyOut>>

sessionVars == <<mounted, uiVars, refVars, recVars, connVars, turnVars, lastEvent>>

compVars == <<detector, player, visual, dsp, azure>>

vars == <<mounted, provider, uiVars, refVars, recVars, connVars, turnVars, lastEvent, routeVars, compVars>>

\* React drops state updates of a component that has been unmounted.
live == mounted = "yes"

InFlight == {"gen", "ttsFetch", "ttsPlay", "ttsFallback"}

NoTurn == [pc |-> "none", userText |-> "", reply |-> ""]

InitCommon ==
    /\ mounted = "no"
    /\ phase = "idle"
    /\ transcripts = <<>>
    /\ userSubtitle = ""
    /\ assistantFeedback = ""
    /\ isGenerating = FALSE
    /\ connectionStatus = "disconnected"
    /\ clientRef = 0
    /\ ttsOwner = 0
    /\ ttsVoice = "none"
    /\ processorRef = 0
    /\ procClosed = {}
    /\ loops = {}
    /\ animationFrameRef = 0
    /\ rec = [c \in Clients |-> "off"]
    /\ mediaStream = [c \in Clients |-> FALSE]
    /\ micLive = 0
    /\ gumSess = [c \in Clients |-> FALSE]
    /\ gumTimer = [c \in Clients |-> 0]
    /\ closing = 0
    /\ orphanWs = 0
    /\ timers = 0
    /\ turns = [t \in Turns |-> NoTurn]
    /\ nTurns = 0
    /\ interims = 0
    /\ uttFinal = TRUE
    /\ issuer = [t \in Turns |-> 0]
    /\ lastEvent = "init"

\* No generateReply call has been made.
InitRoute ==
    /\ prompt = ""
    /\ rpc = "idle"
    /\ idx = 1
    /\ calls = <<>>
    /\ tried = {}
    /\ failedProv = {}
    /\ outputText = ""
    /\ status = 0
    /\ replyOut = ""

DefaultEnv == [llm |-> "", openaiKey |-> TRUE, groqKey |-> TRUE]

\* A new AudioProcessor: silenceThreshold 0.08 (in hundredths), silenceDuration
\* 3500 ms (in clock ticks of 500 ms), no interval running (running:
\* silenceCheckIntervalId is defined; leaked: intervals whose id was
\* overwritten by a later start and that are never cleared).  The other
\* fields are history: durationArg is the duration argument of the latest
\* start, sample the intensity read by the latest poll, loud whether a poll
\* since the latest start read more than the threshold, polls and fired the
\* numbers of polls and of callback calls, firedSinceStart the callback
\* calls since the latest start, armed whether neither stopSilenceDetection
\* nor close has been called since the latest start, closed whether close
\* has been called.
NewDetector ==
    [running |-> FALSE, now |-> 0, lastSoundTime |-> 0, hasDetectedSound |-> FALSE,
     silenceThreshold |-> 8, silenceDuration |-> 7, leaked |-> 0, durationArg |-> 0,
     sample |-> 0, loud |-> FALSE, polls |-> 0, fired |-> 0, firedSinceStart |-> 0,
     armed |-> FALSE, closed |-> FALSE]

\* audioQueue and isPlaying of a new AudioProcessor.  playing (buffer sources
\* started and not ended), started (buffers in the order their sources were
\* started) and next (number of the next buffer) describe the audio output.
NewPlayer == [audioQueue |-> <<>>, isPlaying |-> FALSE, playing |-> {}, started |-> <<>>, next |-> 1]

\* Visual state of the component at its first render: audioIntensity (in
\* tenths) 0, brightness and bloom (in hundredths) 1.0, and the refs.
\* shown, fromListening and livePhase are history: the values handed to the
\* renderer by the latest render in phase listening, whether the latest
\* phase other than processing and speaking was listening, and that phase.
NewVisual ==
    [audioIntensity |-> 0, brightness |-> 100, bloom |-> 100,
     prevVisualPhaseRef |-> "idle", lastListeningAudioRef |-> 0,
     lastListeningBrightnessRef |-> 100, lastListeningBloomRef |-> 100,
     shown |-> [audioIntensity |-> 0, brightness |-> 100, bloom |-> 100],
     fromListening |-> FALSE, livePhase |-> "idle"]

\* No frame analysed and no buffer converted yet.
NewDsp == [frame |-> <<>>, intensity |-> 0, samples |-> <<>>, pcm16 |-> <<>>, decoded |-> <<>>]

\* process.env[name] of a variable that is not set.
Unset == "<unset>"

\* No request to the Azure TTS route yet.
NewAzure == [pc |-> "idle", text |-> Unset, key |-> Unset, region |-> Unset,
             status |-> 0, error |-> "", upstream |-> 0]

InitComp ==
    /\ detector = NewDetector
    /\ player = NewPlayer
    /\ visual = NewVisual
    /\ dsp = NewDsp
    /\ azure = NewAzure

Init == InitCommon /\ provider = "webspeech" /\ InitRoute /\ env = DefaultEnv /\ InitComp

InitStream == InitCommon /\ provider = "deepgram" /\ InitRoute /\ env = DefaultEnv /\ InitComp

(***************************************************************************)
(* Recognition clients                                                     *)
(***************************************************************************)

\* recognition.stop() (WebSpeechSTTClient): a recognition that is capturing
\* audio may still return a result for the audio received so far
\* ("stopping"), one that has not started yet just ends ("finishing").
\* ws.close(); ws = null (DeepgramRealtimeClient): no event but close follows.
RecAfterDisconnect(r) ==
    IF provider = "webspeech"
    THEN IF r = "on" THEN "stopping" ELSE IF r = "starting" THEN "finishing" ELSE r
    ELSE "off"

\* Disconnect that stops the tracks without looking at mediaStream.
DisconnectAlwaysRelease(c) ==
    IF c = 0
    THEN UNCHANGED <<rec, mediaStream, micLive, closing>>
    ELSE /\ rec' = [rec EXCEPT ![c] = RecAfterDisconnect(@)]
         /\ mediaStream' = [mediaStream EXCEPT ![c] = FALSE]
         /\ micLive' = micLive - 1
         /\ closing' = IF provider = "deepgram" /\ rec[c] \in {"starting", "on"}
                       THEN closing + 1 ELSE closing

\* client.disconnect() for client c; c = 0 models the null ref (no call).
Disconnect(c) ==
    IF c = 0
    THEN UNCHANGED <<rec, mediaStream, micLive, closing>>
    ELSE /\ rec' = [rec EXCEPT ![c] = RecAfterDisconnect(@)]
         /\ mediaStream' = [mediaStream EXCEPT ![c] = FALSE]
         /\ micLive' = IF mediaStream[c] THEN micLive - 1 ELSE micLive
         /\ closing' = IF provider = "deepgram" /\ rec[c] \in {"starting", "on"}
                       THEN closing + 1 ELSE closing

\* recognition.start() throws InvalidStateError unless the recognition has ended.
StartThrows(c) == provider = "webspeech" /\ rec[c] # "off"

(***************************************************************************)
(* Mount effect, startSession and cleanup                                  *)
(***************************************************************************)

\* useEffect(() => { startSession(); return cleanup }, []): the synchronous
\* part of startSession up to the await inside client.connect().  With
\* strict = TRUE the effect is replayed: startSession, cleanup, startSession
\* run back to back, leaving the first client's connect() pending.
Mount(strict) ==
    /\ mounted = "no"
    /\ mounted' = "yes"
    /\ connectionStatus' = "connecting"
    /\ clientRef' = IF strict THEN 2 ELSE 1
    /\ processorRef' = IF strict THEN 2 ELSE 1
    /\ procClosed' = IF strict THEN {1} ELSE {}
    /\ ttsOwner' = 0
    /\ ttsVoice' = "en-US-JennyNeural"
    /\ gumSess' = [c \in Clients |-> c = 1 \/ strict]
    /\ lastEvent' = "startSession"
    /\ UNCHANGED <<provider, routeVars, compVars, phase, transcripts, userSubtitle, assistantFeedback, isGenerating>>
    /\ UNCHANGED <<loops, animationFrameRef, recVars, gumTimer, timers, turnVars>>

\* The unmount cleanup: cancelAnimationFrame, client.disconnect(),
\* ttsClient.close(), audioProcessor.close().  Closing the AudioContext of
\* the TTS client while its buffer source plays may suppress the ended event.
Unmount(hang) ==
    /\ mounted = "yes"
    /\ mounted' = "gone"
    /\ loops' = loops \ {animationFrameRef}
    /\ Disconnect(clientRef)
    /\ procClosed' = procClosed \cup {processorRef}
    /\ turns' = IF ttsOwner # 0 /\ turns[ttsOwner].pc = "ttsPlay" /\ hang
                THEN [turns EXCEPT ![ttsOwner].pc = "hung"] ELSE turns
    /\ (hang => ttsOwner # 0 /\ turns[ttsOwner].pc = "ttsPlay")
    /\ lastEvent' = "cleanup"
    /\ UNCHANGED <<provider, routeVars, compVars, uiVars, clientRef, ttsOwner, ttsVoice, processorRef, animationFrameRef>>
    /\ UNCHANGED <<orphanWs, connVars, nTurns, interims, uttFinal, issuer>>

\* SessionRest without the call of startAudioAnalysis().
SessionRestNoAnalysis(c, hasStream) ==
    UNCHANGED <<loops, animationFrameRef>>

\* Rest of startSession after `await client.connect()` for client c, whose
\* getMediaStream() is non-null iff hasStream: connectMediaStream on the
\* current processor and startAudioAnalysis(), whose first updateIntensity()
\* call requests the first animation frame.  On a processor whose
\* AudioContext has been closed createMediaStreamSource may throw, and the
\* catch of startSession then skips startAudioAnalysis().
SessionRest(c, hasStream) ==
    IF hasStream /\ processorRef # 0
    THEN \/ /\ loops' = loops \cup {c}
            /\ animationFrameRef' = c
         \/ /\ processorRef \in procClosed
            /\ UNCHANGED <<loops, animationFrameRef>>
    ELSE UNCHANGED <<loops, animationFrameRef>>

\* getUserMedia resolves for a pending connect() of client c.  session=TRUE:
\* the connect() awaited by startSession; FALSE: one issued by a restart timer.
\* The stream is stored (a stream already held is dropped without being
\* stopped) and the recognition is started; a throwing start() is caught by
\* connect() and reported through onError.
GumGrant(c, session) ==
    /\ IF session THEN gumSess[c] ELSE gumTimer[c] > 0
    /\ gumSess' = IF session THEN [gumSess EXCEPT ![c] = FALSE] ELSE gumSess
    /\ gumTimer' = IF session THEN gumTimer ELSE [gumTimer EXCEPT ![c] = @ - 1]
    /\ mediaStream' = [mediaStream EXCEPT ![c] = TRUE]
    /\ micLive' = micLive + 1
    /\ rec' = IF StartThrows(c) THEN rec ELSE [rec EXCEPT ![c] = "starting"]
    /\ orphanWs' = IF provider = "deepgram" /\ rec[c] \in {"starting", "on"}
                   THEN orphanWs + 1 ELSE orphanWs
    /\ connectionStatus' = IF live /\ StartThrows(c) THEN "error" ELSE connectionStatus
    /\ IF session THEN SessionRest(c, TRUE) ELSE UNCHANGED <<loops, animationFrameRef>>
    /\ lastEvent' = IF StartThrows(c) THEN "connectFailed"
                    ELSE IF session THEN "connectSession" ELSE "connectRestart"
    /\ UNCHANGED <<mounted, provider, routeVars, compVars, phase, transcripts, userSubtitle, assistantFeedback, isGenerating>>
    /\ UNCHANGED <<clientRef, ttsOwner, ttsVoice, processorRef, procClosed, closing, timers, turnVars>>

\* GumDeny whose error handler schedules a reconnect.
GumDenyRetry(c, session) ==
    /\ IF session THEN gumSess[c] ELSE gumTimer[c] > 0
    /\ gumSess' = IF session THEN [gumSess EXCEPT ![c] = FALSE] ELSE gumSess
    /\ gumTimer' = IF session THEN gumTimer ELSE [gumTimer EXCEPT ![c] = @ - 1]
    /\ connectionStatus' = IF live THEN "error" ELSE connectionStatus
    /\ IF session THEN SessionRest(c, mediaStream[c]) ELSE UNCHANGED <<loops, animationFrameRef>>
    /\ lastEvent' = "connectDenied"
    /\ timers' = IF session THEN timers + 1 ELSE timers
    /\ UNCHANGED <<mounted, provider, routeVars, compVars, phase, transcripts, userSubtitle, assistantFeedback, isGenerating>>
    /\ UNCHANGED <<clientRef, ttsOwner, ttsVoice, processorRef, procClosed, recVars, turnVars>>

\* getUserMedia rejects (permission denied): connect() catches, calls onError
\* and resolves.
GumDeny(c, session) ==
    /\ IF session THEN gumSess[c] ELSE gumTimer[c] > 0
    /\ gumSess' = IF session THEN [gumSess EXCEPT ![c] = FALSE] ELSE gumSess
    /\ gumTimer' = IF session THEN gumTimer ELSE [gumTimer EXCEPT ![c] = @ - 1]
    /\ connectionStatus' = IF live THEN "error" ELSE connectionStatus
    /\ IF session THEN SessionRest(c, mediaStream[c]) ELSE UNCHANGED <<loops, animationFrameRef>>
    /\ lastEvent' = "connectDenied"
    /\ UNCHANGED <<mounted, provider, routeVars, compVars, phase, transcripts, userSubtitle, assistantFeedback, isGenerating>>
    /\ UNCHANGED <<clientRef, ttsOwner, ttsVoice, processorRef, procClosed, recVars, timers, turnVars>>

\* updateIntensity of loop l runs on an animation frame and reschedules itself.
Tick(l) ==
    /\ l \in loops
    /\ animationFrameRef' = l
    /\ UNCHANGED lastEvent
    /\ UNCHANGED <<mounted, provider, routeVars, compVars, uiVars, clientRef, ttsOwner, ttsVoice, processorRef, procClosed, loops>>
    /\ UNCHANGED <<recVars, connVars, turnVars>>

(***************************************************************************)
(* handleTranscript and generateAndSpeak                                   *)
(***************************************************************************)

UserEntry(text, isFinal) ==
    [role |-> "user", text |-> IF isFinal THEN text ELSE text \o Ellipsis]

\* ReplaceOrAppendUser that appends even after a user entry.
AppendUser(prev, text, isFinal) == Append(prev, UserEntry(text, isFinal))

\* The updater passed to setTranscripts by handleTranscript.
ReplaceOrAppendUser(prev, text, isFinal) ==
    IF Len(prev) > 0 /\ prev[Len(prev)].role = "user"
    THEN Append(SubSeq(prev, 1, Len(prev) - 1), UserEntry(text, isFinal))
    ELSE Append(prev, UserEntry(text, isFinal))

\* handleTranscript whose updater pushes the entry without looking at the last one.
handleTranscriptPush(text, isFinal) ==
    /\ isFinal => nTurns < MaxTurns
    /\ userSubtitle' = IF live THEN text ELSE userSubtitle
    /\ transcripts' = IF live THEN Append(transcripts, UserEntry(text, isFinal))
                      ELSE transcripts
    /\ phase' = IF ~live THEN phase ELSE IF isFinal THEN "processing" ELSE "listening"
    /\ isGenerating' = IF live /\ isFinal THEN TRUE ELSE isGenerating
    /\ nTurns' = IF isFinal THEN nTurns + 1 ELSE nTurns
    /\ turns' = IF isFinal
                THEN [turns EXCEPT ![nTurns + 1] = [pc |-> "gen", userText |-> text, reply |-> ""]]
                ELSE turns
    /\ interims' = IF isFinal THEN (IF uttFinal THEN 0 ELSE interims)
                   ELSE IF uttFinal THEN 1 ELSE IF interims < 2 THEN interims + 1 ELSE 2
    /\ uttFinal' = isFinal
    /\ lastEvent' = IF isFinal THEN "final" ELSE "interim"
    /\ UNCHANGED <<assistantFeedback>>

\* handleTranscript(text, isFinal) up to the first await of generateAndSpeak
\* (the fetch inside generateReply).
handleTranscript(text, isFinal) ==
    /\ isFinal => nTurns < MaxTurns
    /\ userSubtitle' = IF live THEN text ELSE userSubtitle
    /\ transcripts' = IF live THEN ReplaceOrAppendUser(transcripts, text, isFinal)
                      ELSE transcripts
    /\ phase' = IF ~live THEN phase ELSE IF isFinal THEN "processing" ELSE "listening"
    /\ isGenerating' = IF live /\ isFinal THEN TRUE ELSE isGenerating
    /\ nTurns' = IF isFinal THEN nTurns + 1 ELSE nTurns
    /\ turns' = IF isFinal
                THEN [turns EXCEPT ![nTurns + 1] = [pc |-> "gen", userText |-> text, reply |-> ""]]
                ELSE turns
    /\ interims' = IF isFinal THEN (IF uttFinal THEN 0 ELSE interims)
                   ELSE IF uttFinal THEN 1 ELSE IF interims < 2 THEN interims + 1 ELSE 2
    /\ uttFinal' = isFinal
    /\ lastEvent' = IF isFinal THEN "final" ELSE "interim"
    /\ UNCHANGED <<assistantFeedback>>

\* Finally without the setTimeout that reconnects the recognition client.
FinallyNoRestart ==
    /\ isGenerating' = IF live THEN FALSE ELSE isGenerating
    /\ phase' = IF live THEN "idle" ELSE phase
    /\ Disconnect(clientRef)
    /\ timers' = timers

\* The finally block of generateAndSpeak: setIsGenerating(false),
\* setPhase('idle'), clientRef.current.disconnect(), setTimeout(connect, 500).
Finally ==
    /\ isGenerating' = IF live THEN FALSE ELSE isGenerating
    /\ phase' = IF live THEN "idle" ELSE phase
    /\ Disconnect(clientRef)
    /\ timers' = IF clientRef # 0 THEN timers + 1 ELSE timers

\* generateReply resolves with reply: the reply is shown and logged, the
\* voice is chosen from the reply's language, a new AzureTTSClient replaces
\* ttsClientRef.current and synthesizeAndPlay starts its fetch.
GenResolve(t, reply) ==
    /\ turns[t].pc = "gen"
    /\ turns' = [turns EXCEPT ![t].pc = "ttsFetch", ![t].reply = reply]
    /\ assistantFeedback' = IF live THEN reply ELSE assistantFeedback
    /\ transcripts' = IF live THEN Append(transcripts, [role |-> "assistant", text |-> reply])
                      ELSE transcripts
    /\ phase' = IF live THEN "speaking" ELSE phase
    /\ ttsOwner' = t
    /\ ttsVoice' = VoiceFor(detectLanguage(reply))
    /\ lastEvent' = "reply"
    /\ UNCHANGED <<mounted, provider, routeVars, compVars, userSubtitle, isGenerating, connectionStatus>>
    /\ UNCHANGED <<clientRef, processorRef, procClosed, loops, animationFrameRef>>
    /\ UNCHANGED <<recVars, connVars, nTurns, interims, uttFinal, issuer>>

\* GenReject with a catch block that does not log the apology.
GenRejectNoEntry(t, msg) ==
    /\ turns[t].pc = "gen"
    /\ turns' = [turns EXCEPT ![t].pc = "done"]
    /\ assistantFeedback' = IF live THEN SorryPrefix \o msg ELSE assistantFeedback
    /\ transcripts' = transcripts
    /\ Finally
    /\ lastEvent' = "replyFailed"
    /\ UNCHANGED <<mounted, provider, routeVars, compVars, userSubtitle, connectionStatus>>
    /\ UNCHANGED <<refVars, orphanWs, gumSess, gumTimer, nTurns, interims, uttFinal, issuer>>

\* generateReply rejects (the version of text-generation.ts that throws on a
\* non-OK response): catch block, then finally.
GenReject(t, msg) ==
    /\ turns[t].pc = "gen"
    /\ turns' = [turns EXCEPT ![t].pc = "done"]
    /\ assistantFeedback' = IF live THEN SorryPrefix \o msg ELSE assistantFeedback
    /\ transcripts' = IF live
                      THEN Append(transcripts, [role |-> "assistant", text |-> SorryPrefix \o msg])
                      ELSE transcripts
    /\ Finally
    /\ lastEvent' = "replyFailed"
    /\ UNCHANGED <<mounted, provider, routeVars, compVars, userSubtitle, connectionStatus>>
    /\ UNCHANGED <<refVars, orphanWs, gumSess, gumTimer, nTurns, interims, uttFinal, issuer>>

\* The fetch of synthesizeAndPlay returns audio and playAudio starts the
\* buffer source.
TtsFetchOk(t) ==
    /\ turns[t].pc = "ttsFetch"
    /\ turns' = [turns EXCEPT ![t].pc = "ttsPlay"]
    /\ lastEvent' = "audioReceived"
    /\ UNCHANGED <<mounted, provider, routeVars, compVars, uiVars, refVars, recVars, connVars, nTurns, interims, uttFinal, issuer>>

\* The fetch fails or answers non-OK, or decoding fails, and the client
\* falls back to window.speechSynthesis (AzureTTSClient with fallbackSpeak).
TtsFallback(t) ==
    /\ turns[t].pc = "ttsFetch"
    /\ turns' = [turns EXCEPT ![t].pc = "ttsFallback"]
    /\ lastEvent' = "ttsFallback"
    /\ UNCHANGED <<mounted, provider, routeVars, compVars, uiVars, refVars, recVars, connVars, nTurns, interims, uttFinal, issuer>>

\* The primary synthesis fails as in TtsFallback, but window.speechSynthesis
\* is undefined: fallbackSpeak logs and returns, synthesizeAndPlay resolves
\* at once (AzureTTSClient with fallbackSpeak).  Then finally.
TtsNoFallback(t) ==
    /\ turns[t].pc = "ttsFetch"
    /\ turns' = [turns EXCEPT ![t].pc = "done"]
    /\ Finally
    /\ lastEvent' = "audioLost"
    /\ UNCHANGED <<mounted, provider, routeVars, compVars, transcripts, userSubtitle, assistantFeedback, connectionStatus>>
    /\ UNCHANGED <<refVars, orphanWs, gumSess, gumTimer, nTurns, interims, uttFinal, issuer>>

\* synthesizeAndPlay resolves: source.onended, or utter.onend / onerror of
\* the fallback.  Then finally.
TtsResolve(t) ==
    /\ turns[t].pc \in {"ttsPlay", "ttsFallback"}
    /\ turns' = [turns EXCEPT ![t].pc = "done"]
    /\ Finally
    /\ lastEvent' = "spoken"
    /\ UNCHANGED <<mounted, provider, routeVars, compVars, transcripts, userSubtitle, assistantFeedback, connectionStatus>>
    /\ UNCHANGED <<refVars, orphanWs, gumSess, gumTimer, nTurns, interims, uttFinal, issuer>>

\* The updater of the inner catch: the last entry is replaced by the
\* annotated reply.
AnnotateAudioFailed(prev, reply) ==
    Append(SubSeq(prev, 1, Len(prev) - 1), [role |-> "assistant", text |-> reply \o AudioFailed])

\* TtsReject whose inner catch is not followed by the finally block.
TtsRejectNoFinally(t) ==
    /\ turns[t].pc = "ttsFetch"
    /\ turns' = [turns EXCEPT ![t].pc = "done"]
    /\ transcripts' = IF live THEN AnnotateAudioFailed(transcripts, turns[t].reply)
                      ELSE transcripts
    /\ lastEvent' = "audioFailed"
    /\ UNCHANGED <<mounted, provider, routeVars, compVars, phase, isGenerating, userSubtitle, assistantFeedback, connectionStatus>>
    /\ UNCHANGED <<refVars, recVars, connVars, nTurns, interims, uttFinal, issuer>>

\* synthesizeAndPlay rejects (the AzureTTSClient that rethrows): inner catch
\* annotates the log, then finally.
TtsReject(t) ==
    /\ turns[t].pc = "ttsFetch"
    /\ turns' = [turns EXCEPT ![t].pc = "done"]
    /\ transcripts' = IF live THEN AnnotateAudioFailed(transcripts, turns[t].reply)
                      ELSE transcripts
    /\ Finally
    /\ lastEvent' = "audioFailed"
    /\ UNCHANGED <<mounted, provider, routeVars, compVars, userSubtitle, assistantFeedback, connectionStatus>>
    /\ UNCHANGED <<refVars, orphanWs, gumSess, gumTimer, nTurns, interims, uttFinal, issuer>>

\* TimerFire with a callback that calls connect() twice.
TimerFireTwice ==
    /\ timers > 0
    /\ timers' = timers - 1
    /\ gumTimer' = IF clientRef # 0 THEN [gumTimer EXCEPT ![clientRef] = @ + 2] ELSE gumTimer
    /\ lastEvent' = "restartTimer"
    /\ UNCHANGED <<mounted, provider, routeVars, compVars, uiVars, refVars, recVars, gumSess, turnVars>>

\* The restart timeout fires: clientRef.current?.connect().
TimerFire ==
    /\ timers > 0
    /\ timers' = timers - 1
    /\ gumTimer' = IF clientRef # 0 THEN [gumTimer EXCEPT ![clientRef] = @ + 1] ELSE gumTimer
    /\ lastEvent' = "restartTimer"
    /\ UNCHANGED <<mounted, provider, routeVars, compVars, uiVars, refVars, recVars, gumSess, turnVars>>

(***************************************************************************)
(* Events of WebSpeechSTTClient (recognition.continuous = false,           *)
(* interimResults = false)                                                 *)
(***************************************************************************)

\* recognition.onstart
OnStart(c) ==
    /\ provider = "webspeech"
    /\ rec[c] = "starting"
    /\ rec' = [rec EXCEPT ![c] = "on"]
    /\ connectionStatus' = IF live THEN "connected" ELSE connectionStatus
    /\ lastEvent' = "onstart"
    /\ UNCHANGED <<mounted, provider, routeVars, compVars, phase, transcripts, userSubtitle, assistantFeedback, isGenerating>>
    /\ UNCHANGED <<refVars, mediaStream, micLive, closing, orphanWs, connVars, turnVars>>

\* Transcripts a recognition result may carry: the user texts, an empty one
\* and a blank one.
RawResults == UserTexts \cup {"", " "}

\* String.prototype.trim, for the collected texts of the model.
Trim(t) ==
    IF t \in {"", " ", "  "} THEN ""
    ELSE IF t = "hel " THEN "hel"
    ELSE IF t = "hello there " THEN "hello there"
    ELSE t

\* OnResult that passes the collected text on without the `if (text)` test.
OnResultUnchecked(c, raw) ==
    /\ provider = "webspeech"
    /\ rec[c] \in {"on", "stopping"}
    /\ rec' = [rec EXCEPT ![c] = "finishing"]
    /\ handleTranscript(Trim(raw \o " "), TRUE)
    /\ issuer' = [issuer EXCEPT ![nTurns + 1] = c]
    /\ UNCHANGED <<mounted, provider, routeVars, compVars, connectionStatus>>
    /\ UNCHANGED <<refVars, mediaStream, micLive, closing, orphanWs, connVars>>

\* recognition.onresult: the one final result of a non-continuous
\* recognition, also delivered for the audio captured before stop().  The
\* transcript raw is collected with a blank appended and trimmed; an empty
\* text is dropped.
OnResult(c, raw) ==
    /\ provider = "webspeech"
    /\ rec[c] \in {"on", "stopping"}
    /\ rec' = [rec EXCEPT ![c] = "finishing"]
    /\ IF Trim(raw \o " ") # ""
       THEN /\ handleTranscript(Trim(raw \o " "), TRUE)
            /\ issuer' = [issuer EXCEPT ![nTurns + 1] = c]
       ELSE /\ lastEvent' = "emptyResult"
            /\ UNCHANGED <<phase, transcripts, userSubtitle, assistantFeedback, isGenerating, turnVars>>
    /\ UNCHANGED <<mounted, provider, routeVars, compVars, connectionStatus>>
    /\ UNCHANGED <<refVars, mediaStream, micLive, closing, orphanWs, connVars>>

\* OnRecError whose handler also clears the transcript log.
OnRecErrorClearsLog(c) ==
    /\ provider = "webspeech"
    /\ rec[c] \in {"starting", "on"}
    /\ rec' = [rec EXCEPT ![c] = "finishing"]
    /\ connectionStatus' = IF live THEN "error" ELSE connectionStatus
    /\ transcripts' = <<>>
    /\ lastEvent' = "onerror"
    /\ UNCHANGED <<mounted, provider, routeVars, compVars, phase, userSubtitle, assistantFeedback, isGenerating>>
    /\ UNCHANGED <<refVars, mediaStream, micLive, closing, orphanWs, connVars, turnVars>>

\* recognition.onerror (no-speech, aborted, network, ...); onend follows.
OnRecError(c) ==
    /\ provider = "webspeech"
    /\ rec[c] \in {"starting", "on"}
    /\ rec' = [rec EXCEPT ![c] = "finishing"]
    /\ connectionStatus' = IF live THEN "error" ELSE connectionStatus
    /\ lastEvent' = "onerror"
    /\ UNCHANGED <<mounted, provider, routeVars, compVars, phase, transcripts, userSubtitle, assistantFeedback, isGenerating>>
    /\ UNCHANGED <<refVars, mediaStream, micLive, closing, orphanWs, connVars, turnVars>>

\* recognition.onend
OnEnd(c) ==
    /\ provider = "webspeech"
    /\ rec[c] \in {"stopping", "finishing"}
    /\ rec' = [rec EXCEPT ![c] = "off"]
    /\ connectionStatus' = IF live THEN "disconnected" ELSE connectionStatus
    /\ lastEvent' = "onend"
    /\ UNCHANGED <<mounted, provider, routeVars, compVars, phase, transcripts, userSubtitle, assistantFeedback, isGenerating>>
    /\ UNCHANGED <<refVars, mediaStream, micLive, closing, orphanWs, connVars, turnVars>>

(***************************************************************************)
(* Events of DeepgramRealtimeClient (streaming: interim and final results  *)
(* for as long as the socket is open)                                      *)
(***************************************************************************)

\* handleOpen
HandleOpen(c) ==
    /\ provider = "deepgram"
    /\ rec[c] = "starting"
    /\ rec' = [rec EXCEPT ![c] = "on"]
    /\ connectionStatus' = IF live THEN "connected" ELSE connectionStatus
    /\ lastEvent' = "onopen"
    /\ UNCHANGED <<mounted, provider, routeVars, compVars, phase, transcripts, userSubtitle, assistantFeedback, isGenerating>>
    /\ UNCHANGED <<refVars, mediaStream, micLive, closing, orphanWs, connVars, turnVars>>

\* handleMessage with a non-empty transcript: onTranscript(transcript, is_final)
HandleMessage(c, text, isFinal) ==
    /\ provider = "deepgram"
    /\ rec[c] = "on" \/ orphanWs > 0
    /\ handleTranscript(text, isFinal)
    /\ issuer' = IF isFinal THEN [issuer EXCEPT ![nTurns + 1] = c] ELSE issuer
    /\ UNCHANGED <<mounted, provider, routeVars, compVars, connectionStatus, refVars, recVars, connVars>>

\* handleClose of a socket closed by disconnect()
HandleClose ==
    /\ provider = "deepgram"
    /\ closing > 0
    /\ closing' = closing - 1
    /\ connectionStatus' = IF live THEN "disconnected" ELSE connectionStatus
    /\ lastEvent' = "onclose"
    /\ UNCHANGED <<mounted, provider, routeVars, compVars, phase, transcripts, userSubtitle, assistantFeedback, isGenerating>>
    /\ UNCHANGED <<refVars, rec, mediaStream, micLive, orphanWs, connVars, turnVars>>

\* handleError: the socket fails, onError is called; the close event of the
\* failed socket follows.
HandleError(c) ==
    /\ provider = "deepgram"
    /\ rec[c] \in {"starting", "on"}
    /\ rec' = [rec EXCEPT ![c] = "off"]
    /\ closing' = closing + 1
    /\ connectionStatus' = IF live THEN "error" ELSE connectionStatus
    /\ lastEvent' = "onerror"
    /\ UNCHANGED <<mounted, provider, routeVars, compVars, phase, transcripts, userSubtitle, assistantFeedback, isGenerating>>
    /\ UNCHANGED <<refVars, mediaStream, micLive, orphanWs, connVars, turnVars>>

(***************************************************************************)
(* generateReply (the version with the canned replies) and the             *)
(* generate-reply route                                                    *)
(***************************************************************************)

Envs == [llm : {"", "groq"}, openaiKey : BOOLEAN, groqKey : BOOLEAN]

\* Prompts: English, Chinese, and English with one CJK character in five.
Prompts == {"hel", "ZH wo hen nan guo", "ok ZH hao"}

\* Content a provider may answer with.
ProviderTexts == {"I hear you."}

\* empatheticResponsesEN / empatheticResponsesCN (two entries of each).
empatheticResponsesEN == {"I hear you. That sounds tough.", "I understand. That must be difficult."}
empatheticResponsesCN == {"ZH wo li jie", "ZH ni bu shi yi ge ren"}

\* FallbackTable that ignores the detected language.
FallbackTableEN(lang) == empatheticResponsesEN

\* The table the catch block of generateReply draws from.
FallbackTable(lang) == IF lang = "zh-CN" THEN empatheticResponsesCN ELSE empatheticResponsesEN

\* Outcome of one fetch of a provider endpoint: OK with content, OK with
\* empty or missing content, a non-OK response, or fetch throws.
Outcomes == {"text", "empty", "notok", "throw"}

\* POST: provider === 'groq' ? Groq then OpenAI : OpenAI then Groq
Order == IF env.llm = "groq" THEN <<"groq", "openai">> ELSE <<"openai", "groq">>

HasKey(prov) == IF prov = "openai" THEN env.openaiKey ELSE env.groqKey

\* generateReply is called with prompt p and its fetch reaches the route.
generateReply(p) ==
    /\ rpc \in {"idle", "done", "voiced"}
    /\ prompt' = p
    /\ rpc' = "try"
    /\ idx' = 1
    /\ calls' = <<>>
    /\ tried' = {}
    /\ failedProv' = {}
    /\ outputText' = ""
    /\ status' = 0
    /\ replyOut' = ""
    /\ UNCHANGED <<env, provider, sessionVars, compVars>>

\* The fetch of generateReply itself throws (server unreachable): catch.
generateReplyFetchFails(p, canned) ==
    /\ rpc \in {"idle", "done", "voiced"}
    /\ canned \in FallbackTable(detectLanguage(p))
    /\ prompt' = p
    /\ rpc' = "done"
    /\ idx' = 1
    /\ calls' = <<>>
    /\ tried' = {}
    /\ failedProv' = {}
    /\ outputText' = ""
    /\ status' = 0
    /\ replyOut' = canned
    /\ UNCHANGED <<env, provider, sessionVars, compVars>>

\* What the route does once the try function of Order[idx] has returned
\* null: the other provider is tried if this was the first, else the route
\* goes on to its response.
AfterNull == IF idx = 1 THEN "try" ELSE "respond"

\* POST calls tryOpenAI() or tryGroq() for Order[idx]: without a key the
\* function returns null at once, else it awaits its first fetch.
TryProvider ==
    /\ rpc = "try"
    /\ tried' = tried \cup {Order[idx]}
    /\ IF HasKey(Order[idx])
       THEN /\ rpc' = IF Order[idx] = "openai" THEN "openai-chat" ELSE "groq"
            /\ calls' = Append(calls, IF Order[idx] = "openai" THEN "openai-chat" ELSE "groq")
            /\ UNCHANGED <<idx, failedProv>>
       ELSE /\ rpc' = AfterNull
            /\ idx' = IF idx = 1 THEN 2 ELSE idx
            /\ failedProv' = failedProv \cup {Order[idx]}
            /\ UNCHANGED calls
    /\ UNCHANGED <<env, prompt, outputText, status, replyOut, provider, sessionVars, compVars>>

\* The fetch awaited by tryOpenAI / tryGroq settles with outcome o.  Content
\* is returned to POST; after a failed Chat Completions call tryOpenAI goes
\* on to the Responses API; otherwise the function returns null; a throwing
\* fetch leaves the try function and POST's try block for the catch of POST.
FetchSettles(o, text) ==
    /\ rpc \in {"openai-chat", "openai-responses", "groq"}
    /\ IF o = "text"
       THEN /\ outputText' = text
            /\ rpc' = "respond"
            /\ UNCHANGED <<idx, calls, failedProv, status>>
       ELSE IF o = "throw"
       THEN /\ status' = 500
            /\ rpc' = "respond"
            /\ failedProv' = failedProv \cup {Order[idx]}
            /\ UNCHANGED <<idx, calls, outputText>>
       ELSE IF rpc = "openai-chat"
       THEN /\ rpc' = "openai-responses"
            /\ calls' = Append(calls, "openai-responses")
            /\ UNCHANGED <<idx, failedProv, outputText, status>>
       ELSE /\ rpc' = AfterNull
            /\ idx' = IF idx = 1 THEN 2 ELSE idx
            /\ failedProv' = failedProv \cup {Order[idx]}
            /\ UNCHANGED <<calls, outputText, status>>
    /\ UNCHANGED <<env, prompt, tried, replyOut, provider, sessionVars, compVars>>

\* The route responds (200 with the text, 429 when all providers failed, 500
\* from its catch) and generateReply resumes: json.text on an OK response,
\* otherwise its catch block returns a canned reply.
Respond(canned) ==
    /\ rpc = "respond"
    /\ canned \in FallbackTable(detectLanguage(prompt))
    /\ status' = IF status = 500 THEN 500 ELSE IF outputText # "" THEN 200 ELSE 429
    /\ replyOut' = IF status # 500 /\ outputText # "" THEN outputText ELSE canned
    /\ rpc' = "done"
    /\ UNCHANGED <<env, prompt, idx, calls, tried, failedProv, outputText, provider, sessionVars, compVars>>

\* generateAndSpeak after generateReply has resolved with replyOut: the
\* voice of the new AzureTTSClient is chosen from the reply's language.
SelectVoice ==
    /\ rpc = "done"
    /\ rpc' = "voiced"
    /\ ttsVoice' = VoiceFor(detectLanguage(replyOut))
    /\ UNCHANGED <<mounted, provider, uiVars, recVars, connVars, turnVars, lastEvent, compVars>>
    /\ UNCHANGED <<clientRef, ttsOwner, processorRef, procClosed, loops, animationFrameRef>>
    /\ UNCHANGED <<env, prompt, idx, calls, tried, failedProv, outputText, status, replyOut>>

(***************************************************************************)
(* Specifications                                                          *)
(***************************************************************************)

\* Steps of startSession, the turn and the restart, shared by all wirings.
Orchestrator ==
    \/ \E c \in Clients, session \in BOOLEAN : GumGrant(c, session)
    \/ \E c \in Clients, session \in BOOLEAN : GumDeny(c, session)
    \/ \E t \in Turns, reply \in Replies : GenResolve(t, reply)
    \/ \E t \in Turns, msg \in ErrMsgs : GenReject(t, msg)
    \/ \E t \in Turns : TtsFetchOk(t)
    \/ \E t \in Turns : TtsFallback(t)
    \/ \E t \in Turns : TtsNoFallback(t)
    \/ \E t \in Turns : TtsResolve(t)
    \/ \E t \in Turns : TtsReject(t)
    \/ TimerFire

WebSpeech ==
    \/ \E c \in Clients : OnStart(c)
    \/ \E c \in Clients, raw \in RawResults : OnResult(c, raw)
    \/ \E c \in Clients : OnRecError(c)
    \/ \E c \in Clients : OnEnd(c)

Deepgram ==
    \/ \E c \in Clients : HandleOpen(c)
    \/ \E c \in Clients, text \in UserTexts, isFinal \in BOOLEAN : HandleMessage(c, text, isFinal)
    \/ HandleClose

\* The component as wired (WebSpeechSTTClient), mount effect run once.
Next == Mount(FALSE) \/ Orchestrator \/ WebSpeech

Spec == Init /\ [][Next]_vars

\* The same, with the mount effect run once or replayed (strict mode).
NextStrict == (\E strict \in BOOLEAN : Mount(strict)) \/ Orchestrator \/ WebSpeech

SpecStrict == Init /\ [][NextStrict]_vars

\* handleTranscript driven by the streaming recognition client of the
\* repository, which has the same interface and delivers interim results.
NextStream == Mount(FALSE) \/ Orchestrator \/ Deepgram

SpecStream == InitStream /\ [][NextStream]_vars

\* The streaming client with a recognition service that delivers results
\* only while no turn is in flight (one utterance, then silence until the
\* reply has been spoken) and whose socket may fail at any time.
NextScenario ==
    \/ Mount(FALSE)
    \/ Orchestrator
    \/ \E c \in Clients : HandleOpen(c)
    \/ /\ \A t \in Turns : turns[t].pc \notin InFlight
       /\ \E c \in Clients, text \in UserTexts, isFinal \in BOOLEAN : HandleMessage(c, text, isFinal)
    \/ HandleClose
    \/ \E c \in Clients : HandleError(c)

SpecScenario == InitStream /\ [][NextScenario]_vars

\* disconnect() of client c called through the client's interface.
DisconnectEvent(c) == IF c = 1 THEN "disconnect 1" ELSE "disconnect 2"

CallDisconnect(c) ==
    /\ mounted = "yes"
    /\ Disconnect(c)
    /\ lastEvent' = DisconnectEvent(c)
    /\ UNCHANGED <<mounted, provider, routeVars, compVars, uiVars, refVars, orphanWs, connVars, turnVars>>

\* Either recognition client, with disconnect() called at any time.
InitClient ==
    InitCommon /\ provider \in {"webspeech", "deepgram"} /\ InitRoute /\ env = DefaultEnv /\ InitComp

NextClient ==
    \/ NextScenario
    \/ WebSpeech
    \/ \E c \in Clients : CallDisconnect(c)

SpecClient == InitClient /\ [][NextClient]_vars

\* The component as wired, together with the unmount cleanup and the
\* animation-frame loop.
NextTeardown == Next \/ (\E hang \in BOOLEAN : Unmount(hang)) \/ (\E l \in Clients : Tick(l))

SpecTeardown == Init /\ [][NextTeardown]_vars

\* generateReply and the route on their own, for every configuration of the
\* route's environment.
InitReply == InitCommon /\ provider = "webspeech" /\ InitRoute /\ env \in Envs /\ InitComp

NextReply ==
    \/ \E p \in Prompts : generateReply(p)
    \/ \E p \in Prompts, canned \in empatheticResponsesEN \cup empatheticResponsesCN :
          generateReplyFetchFails(p, canned)
    \/ TryProvider
    \/ \E o \in Outcomes, text \in ProviderTexts : FetchSettles(o, text)
    \/ \E canned \in empatheticResponsesEN \cup empatheticResponsesCN : Respond(canned)
    \/ SelectVoice

SpecReply == InitReply /\ [][NextReply]_vars

(***************************************************************************)
(* Silence detection of AudioProcessor                                     *)
(***************************************************************************)

\* Largest value of the clock (Date.now() in clock units).
MaxTime == 11

\* Intensities a poll may read, thresholds and durations a caller may pass
\* (intensities and thresholds in hundredths).
DetSamples == {0, 3, 4, 50}
DetThresholds == {3, 8}
DetDurations == {2, 3}

\* An argument that is left out, and the defaults of the parameters
\* (threshold = 0.03, duration = 5000).
Undefined == -1
ParamThreshold == 3
ParamDuration == 10

\* Number of intervals a behaviour may leak by starting the detection while
\* it is running.
MaxLeaked == 1

\* Time that may pass between two polls of the interval (nominal period 1).
PollGaps == {1, 2}

\* Everything but the detector.
offDetector == <<mounted, provider, uiVars, refVars, recVars, connVars, turnVars, lastEvent,
                 routeVars, player, visual, dsp, azure>>

\* startSilenceDetection(callback, threshold, duration), either argument
\* possibly left out.  The id of an interval that is running is overwritten,
\* and that interval keeps polling.
startSilenceDetection(threshold, duration) ==
    /\ ~detector.closed
    /\ detector.running => detector.leaked < MaxLeaked
    /\ detector' = [detector EXCEPT
          !.running = TRUE,
          !.silenceThreshold = IF threshold = Undefined THEN ParamThreshold ELSE threshold,
          !.silenceDuration = IF duration = Undefined THEN ParamDuration ELSE duration,
          !.lastSoundTime = detector.now,
          !.hasDetectedSound = FALSE,
          !.leaked = IF detector.running THEN @ + 1 ELSE @,
          !.durationArg = duration, !.loud = FALSE, !.firedSinceStart = 0, !.armed = TRUE]
    /\ UNCHANGED offDetector

\* Poll that raises the callback without looking at hasDetectedSound.
PollNoLatch(gap, intensity) ==
    /\ detector.running \/ detector.leaked > 0
    /\ detector.now + gap <= MaxTime
    /\ LET now == detector.now + gap
           d == [detector EXCEPT !.now = now, !.sample = intensity, !.polls = @ + 1]
       IN  IF intensity > detector.silenceThreshold
           THEN detector' = [d EXCEPT !.hasDetectedSound = TRUE, !.lastSoundTime = now, !.loud = TRUE]
           ELSE IF now - detector.lastSoundTime >= detector.silenceDuration
           THEN detector' = [d EXCEPT !.running = FALSE, !.fired = @ + 1,
                                      !.firedSinceStart = @ + 1]
           ELSE detector' = d
    /\ UNCHANGED offDetector

\* The interval callback of any interval that was not cleared, run gap after
\* the previous poll, reading intensity.
Poll(gap, intensity) ==
    /\ detector.running \/ detector.leaked > 0
    /\ detector.now + gap <= MaxTime
    /\ LET now == detector.now + gap
           d == [detector EXCEPT !.now = now, !.sample = intensity, !.polls = @ + 1]
       IN  IF intensity > detector.silenceThreshold
           THEN detector' = [d EXCEPT !.hasDetectedSound = TRUE, !.lastSoundTime = now, !.loud = TRUE]
           ELSE IF detector.hasDetectedSound
                   /\ now - detector.lastSoundTime >= detector.silenceDuration
           THEN detector' = [d EXCEPT !.running = FALSE, !.fired = @ + 1,
                                      !.firedSinceStart = @ + 1]
           ELSE detector' = d
    /\ UNCHANGED offDetector

\* stopSilenceDetection()
stopSilenceDetection ==
    /\ detector.running
    /\ detector' = [detector EXCEPT !.running = FALSE, !.armed = FALSE]
    /\ UNCHANGED offDetector

\* close(): stopSilenceDetection() and both AudioContexts are closed.
close ==
    /\ ~detector.closed
    /\ detector' = [detector EXCEPT !.running = FALSE, !.armed = FALSE, !.closed = TRUE]
    /\ UNCHANGED offDetector

NextDetector ==
    \/ \E threshold \in DetThresholds \cup {Undefined}, duration \in DetDurations \cup {Undefined} :
          startSilenceDetection(threshold, duration)
    \/ \E gap \in PollGaps, intensity \in DetSamples : Poll(gap, intensity)
    \/ stopSilenceDetection
    \/ close

SpecDetector == Init /\ [][NextDetector]_vars

(***************************************************************************)
(* Playback queue of AudioProcessor                                        *)
(***************************************************************************)

\* Number of buffers a behaviour may enqueue.
MaxBuffers == 5

offPlayer == <<mounted, provider, uiVars, refVars, recVars, connVars, turnVars, lastEvent,
               routeVars, detector, visual, dsp, azure>>

\* processAudioQueue() applied to the fields pl: with an empty queue
\* isPlaying is cleared, else the head is shifted off and a buffer source
\* for it is started.
processAudioQueue(pl) ==
    IF pl.audioQueue = <<>>
    THEN [pl EXCEPT !.isPlaying = FALSE]
    ELSE [pl EXCEPT !.isPlaying = TRUE,
                    !.audioQueue = Tail(pl.audioQueue),
                    !.playing = pl.playing \cup {Head(pl.audioQueue)},
                    !.started = Append(pl.started, Head(pl.audioQueue))]

\* playAudio(pcm16Data): the converted buffer is pushed and, unless
\* isPlaying, processAudioQueue() is called.
playAudio ==
    /\ player.next <= MaxBuffers
    /\ LET pushed == [player EXCEPT !.audioQueue = Append(@, player.next), !.next = @ + 1]
       IN  player' = IF player.isPlaying THEN pushed ELSE processAudioQueue(pushed)
    /\ UNCHANGED offPlayer

\* source.onended of the source playing buffer b: processAudioQueue().
PlaybackEnded(b) ==
    /\ b \in player.playing
    /\ player' = processAudioQueue([player EXCEPT !.playing = @ \ {b}])
    /\ UNCHANGED offPlayer

\* stopAudio(): the queue is emptied and isPlaying cleared; a source that is
\* playing is not stopped.
stopAudio ==
    /\ player' = [player EXCEPT !.audioQueue = <<>>, !.isPlaying = FALSE]
    /\ UNCHANGED offPlayer

NextPlayer ==
    \/ playAudio
    \/ \E b \in 1..MaxBuffers : PlaybackEnded(b)
    \/ stopAudio

SpecPlayer == Init /\ [][NextPlayer]_vars

(***************************************************************************)
(* Visual feedback of the component                                        *)
(***************************************************************************)

Phases == {"idle", "listening", "processing", "speaking"}

\* Values of audioIntensity (tenths) the sampling loop may set.
Intensities == {0, 2, 5, 8, 10}

offVisual == <<mounted, provider, transcripts, userSubtitle, assistantFeedback, isGenerating,
               connectionStatus, refVars, recVars, connVars, turnVars, lastEvent,
               routeVars, detector, player, dsp, azure>>

\* const effectiveAudioIntensity / effectiveBrightness / effectiveBloom: what
\* a render in phase ph hands to GlowSphere and Bloom.
Effective(v, ph) ==
    IF ph \in {"speaking", "processing"}
    THEN [audioIntensity |-> v.lastListeningAudioRef,
          brightness |-> v.lastListeningBrightnessRef,
          bloom |-> v.lastListeningBloomRef]
    ELSE [audioIntensity |-> v.audioIntensity, brightness |-> v.brightness, bloom |-> v.bloom]

\* The code of a phase in the switch of getPhaseNumber, in tenths.
PhaseCode(ph) == IF ph = "listening" THEN 10 ELSE IF ph = "processing" THEN 15 ELSE 0

\* getPhaseNumber that follows the current phase.
getPhaseNumberLive(v, ph) == PhaseCode(ph)

\* getPhaseNumber() of a render in phase ph.
getPhaseNumber(v, ph) ==
    PhaseCode(IF ph \in {"speaking", "processing"} THEN v.prevVisualPhaseRef ELSE ph)

\* VisualEffect that records the lastListening refs in every phase.
VisualEffectAlways(v, ph) ==
    [v EXCEPT !.brightness = IF ph = "listening" THEN 100 + v.audioIntensity * 20 ELSE 100,
              !.bloom = IF ph = "listening" THEN 150 + v.audioIntensity * 45 ELSE 100,
              !.prevVisualPhaseRef = ph,
              !.lastListeningAudioRef = v.audioIntensity,
              !.lastListeningBrightnessRef = 100 + v.audioIntensity * 20,
              !.lastListeningBloomRef = 150 + v.audioIntensity * 45]

\* The effect on [phase, audioIntensity] and the render that follows its
\* state updates, for phase ph and the audioIntensity of v.
VisualEffect(v, ph) ==
    IF ph = "listening"
    THEN [v EXCEPT !.brightness = 100 + v.audioIntensity * 20,
                   !.bloom = 150 + v.audioIntensity * 45,
                   !.prevVisualPhaseRef = ph,
                   !.lastListeningAudioRef = v.audioIntensity,
                   !.lastListeningBrightnessRef = 100 + v.audioIntensity * 20,
                   !.lastListeningBloomRef = 150 + v.audioIntensity * 45]
    ELSE [v EXCEPT !.brightness = 100, !.bloom = 100]

\* History kept with a render in phase ph.
Observe(v, ph) ==
    IF ph = "listening"
    THEN [v EXCEPT !.shown = Effective(v, ph), !.fromListening = TRUE, !.livePhase = ph]
    ELSE IF ph = "idle" THEN [v EXCEPT !.fromListening = FALSE, !.livePhase = ph] ELSE v

\* updateIntensity: setAudioIntensity(a), render, effect.
setAudioIntensity(a) ==
    /\ a # visual.audioIntensity
    /\ visual' = Observe(VisualEffect([visual EXCEPT !.audioIntensity = a], phase), phase)
    /\ UNCHANGED <<phase, offVisual>>

\* setPhase(ph) by handleTranscript or generateAndSpeak, render, effect.
setPhase(ph) ==
    /\ ph # phase
    /\ phase' = ph
    /\ visual' = Observe(VisualEffect(visual, ph), ph)
    /\ UNCHANGED offVisual

NextVisual ==
    \/ \E a \in Intensities : setAudioIntensity(a)
    \/ \E ph \in Phases : setPhase(ph)

SpecVisual == Init /\ [][NextVisual]_vars

(***************************************************************************)
(* The Azure TTS route                                                     *)
(***************************************************************************)

offAzure == <<mounted, provider, uiVars, refVars, recVars, connVars, turnVars, lastEvent,
              routeVars, detector, player, visual, dsp>>

\* What req.json() can give for `text`: the body is not JSON ("<invalid>"),
\* is the JSON value null ("<null>"), has no text member (Unset), or has an
\* empty string, a number or a non-empty string as text.
NotJson == "<invalid>"
NullBody == "<null>"
NumberText == "<42>"
BodyTexts == {NotJson, NullBody, Unset, "", NumberText, "hello there"}

\* `!text || typeof text !== 'string'` of the members an object body can have.
NoStringText(text) == text \in {Unset, "", NumberText}

\* Values of AZURE_SPEECH_KEY and AZURE_SPEECH_REGION in process.env.
KeyValues == {Unset, "", " ", "k3y"}
RegionValues == {Unset, "", " ", "westeurope"}

\* Statuses the speech endpoint answers a refused synthesis with.
UpstreamStatuses == {400, 429}

AzureOutcomes == {"ok", "notOk", "throws"}

\* getEnv(name, fallback): the value when set and not empty, else the
\* fallback when one is given, else an Error is thrown.
getEnv(v, fallback) ==
    IF v # Unset /\ v # "" THEN [throws |-> FALSE, value |-> v]
    ELSE IF fallback # Unset THEN [throws |-> FALSE, value |-> fallback]
    ELSE [throws |-> TRUE, value |-> ""]

\* String.prototype.trim of the environment values of the model.
TrimEnv(v) == IF v = " " THEN "" ELSE v

Answer(code, msg) == [azure EXCEPT !.pc = "done", !.status = code, !.error = msg]

\* POST(req) up to the token fetch, for a body giving `text` and an
\* environment with the given key and region.
POST(text, key, region) ==
    /\ azure.pc \in {"idle", "done"}
    /\ LET req == [azure EXCEPT !.text = text, !.key = key, !.region = region,
                                !.status = 0, !.error = "", !.upstream = 0]
           r == getEnv(region, "eastasia")
           k == getEnv(key, Unset)
       IN  azure' =
             IF text = NotJson
             THEN [req EXCEPT !.pc = "done", !.status = 500, !.error = "Unexpected token"]
             ELSE IF text = NullBody
             THEN [req EXCEPT !.pc = "done", !.status = 500, !.error = "Cannot destructure"]
             ELSE IF NoStringText(text)
             THEN [req EXCEPT !.pc = "done", !.status = 400,
                              !.error = "Missing \"text\" in request body"]
             ELSE IF k.throws
             THEN [req EXCEPT !.pc = "done", !.status = 500,
                              !.error = "Missing required env var: AZURE_SPEECH_KEY"]
             ELSE IF TrimEnv(r.value) = "" \/ TrimEnv(k.value) = ""
             THEN [req EXCEPT !.pc = "done", !.status = 400,
                              !.error = "Missing Azure Speech region or key"]
             ELSE [req EXCEPT !.pc = "token", !.upstream = 1]
    /\ UNCHANGED offAzure

\* The issueToken fetch settles: a token, a refusal, or a network error.
TokenSettles(outcome) ==
    /\ azure.pc = "token"
    /\ azure' = IF outcome = "ok" THEN [azure EXCEPT !.pc = "synth", !.upstream = 2]
                ELSE IF outcome = "notOk" THEN Answer(401, "Failed to issue token")
                ELSE Answer(500, "fetch failed")
    /\ UNCHANGED offAzure

\* The synthesis fetch settles: audio, a refusal whose status is passed
\* on, or a network error.
SynthesisSettles(outcome, code) ==
    /\ azure.pc = "synth"
    /\ azure' = IF outcome = "ok" THEN Answer(200, "")
                ELSE IF outcome = "notOk" THEN Answer(code, "Azure TTS error")
                ELSE Answer(500, "fetch failed")
    /\ UNCHANGED offAzure

NextAzure ==
    \/ \E text \in BodyTexts, key \in KeyValues, region \in RegionValues : POST(text, key, region)
    \/ \E outcome \in AzureOutcomes : TokenSettles(outcome)
    \/ \E outcome \in AzureOutcomes, code \in UpstreamStatuses : SynthesisSettles(outcome, code)

SpecAzure == Init /\ [][NextAzure]_vars

(***************************************************************************)
(* getAudioIntensity and the PCM16 conversions                             *)
(***************************************************************************)

\* Length of the analyser's frame and largest length of a sample buffer.
FrameLen == 3
MaxSamples == 2

\* Byte magnitudes getByteFrequencyData may write.
ByteValues == {0, 1, 64, 128, 181, 255}

\* Float32 samples, in thousandths.
FloatValues == {-3000, -1001, -1000, -500, 0, 1, 500, 1000, 1001, 3000}

Frames == [1..FrameLen -> ByteValues]

SampleBuffers == UNION {[1..n -> FloatValues] : n \in 0..MaxSamples}

offDsp == <<mounted, provider, uiVars, refVars, recVars, connVars, turnVars, lastEvent,
            routeVars, detector, player, visual, azure>>

RECURSIVE SumSquares(_, _)
SumSquares(f, i) == IF i = 0 THEN 0 ELSE f[i] * f[i] + SumSquares(f, i - 1)

\* Math.sqrt, rounded down to an integer, by bisection on lo..hi.
RECURSIVE SqrtBetween(_, _, _)
SqrtBetween(x, lo, hi) ==
    IF lo = hi THEN lo
    ELSE LET mid == (lo + hi + 1) \div 2
         IN  IF mid * mid <= x THEN SqrtBetween(x, mid, hi) ELSE SqrtBetween(x, lo, mid - 1)

\* rms = Math.sqrt(sum / length), in tenths.
Rms10(f) == SqrtBetween((SumSquares(f, Len(f)) * 100) \div Len(f), 0, 2560)

Min(a, b) == IF a <= b THEN a ELSE b
Max(a, b) == IF a >= b THEN a ELSE b

\* IntensityOf without Math.min.
IntensityUnbounded(f) == Rms10(f)

\* Math.min(rms / 128, 1), in units of 1/1280.
IntensityOf(f) == Min(Rms10(f), 1280)

\* getAudioIntensity(): the analyser writes a frame, the intensity is computed.
getAudioIntensity(f) ==
    /\ dsp' = [dsp EXCEPT !.frame = f, !.intensity = IntensityOf(f)]
    /\ UNCHANGED offDsp

\* Conversion of a number to an Int16Array element: the fraction is dropped
\* (x is given in thousandths) and the integer is taken modulo 2^16.
ToInt16(x) ==
    LET t == IF x >= 0 THEN x \div 1000 ELSE 0 - ((0 - x) \div 1000)
    IN  ((t + 32768) % 65536) - 32768

\* PCM16Of without the clamp to [-1, 1].
PCM16Unclamped(x) == ToInt16(IF x < 0 THEN x * 32768 ELSE x * 32767)

\* One element of float32ToPCM16: s = max(-1, min(1, x)),
\* s < 0 ? s * 0x8000 : s * 0x7fff.
PCM16Of(x) ==
    LET sample == Max(-1000, Min(1000, x))
    IN  ToInt16(IF sample < 0 THEN sample * 32768 ELSE sample * 32767)

\* float32ToPCM16(buf)
float32ToPCM16(buf) ==
    /\ dsp' = [dsp EXCEPT !.samples = buf,
                          !.pcm16 = [i \in 1..Len(buf) |-> PCM16Of(buf[i])],
                          !.decoded = <<>>]
    /\ UNCHANGED offDsp

\* The conversion loop of AudioProcessor.playAudio: int16Array[i] / 32768.0,
\* kept as a fraction.
pcm16ToFloat32 ==
    /\ dsp.pcm16 # <<>>
    /\ dsp.decoded = <<>>
    /\ dsp' = [dsp EXCEPT !.decoded = [i \in 1..Len(dsp.pcm16) |-> [num |-> dsp.pcm16[i], den |-> 32768]]]
    /\ UNCHANGED offDsp

NextIntensity == \E f \in Frames : getAudioIntensity(f)

SpecIntensity == Init /\ [][NextIntensity]_vars

NextPcm ==
    \/ \E buf \in SampleBuffers : float32ToPCM16(buf)
    \/ pcm16ToFloat32

SpecPcm == Init /\ [][NextPcm]_vars

\* Timers fire, promises settle and the recognition service delivers its
\* events; the user keeps talking.
Fairness ==
    /\ WF_vars(TimerFire)
    /\ WF_vars(\E c \in Clients, session \in BOOLEAN : GumGrant(c, session))
    /\ WF_vars(\E c \in Clients : OnStart(c))
    /\ WF_vars(\E c \in Clients, raw \in UserTexts : OnResult(c, raw))
    /\ WF_vars(\E c \in Clients : OnEnd(c))
    /\ WF_vars(\E t \in Turns, reply \in Replies : GenResolve(t, reply))
    /\ WF_vars(\E t \in Turns : TtsFetchOk(t))
    /\ WF_vars(\E t \in Turns : TtsResolve(t))

FairSpec == Spec /\ Fairness

(***************************************************************************)
(* Properties                                                              *)
(***************************************************************************)

TurnsInFlight == {t \in Turns : turns[t].pc \in InFlight}

InterimTexts == {t \o Ellipsis : t \in UserTexts}

UserEntries == {i \in 1..Len(transcripts) : transcripts[i].role = "user"}

\* C1: at most one generateAndSpeak sequence (generation followed by
\* synthesis) is in flight at any time.
C1_SingleFlight == Cardinality(TurnsInFlight) <= 1

\* C2: a final transcript delivered while Phase is Processing or Speaking
\* leaves the transcript log and Phase unchanged.
C2_FinalRejected ==
    [][(nTurns' # nTurns /\ phase \in {"processing", "speaking"})
         => (transcripts' = transcripts /\ phase' = phase)]_vars

\* C3: an interim transcript that arrives while Phase is Processing or
\* Speaking does not change Phase.
C3_InterimNoPreempt ==
    [][(lastEvent' = "interim" /\ phase \in {"processing", "speaking"})
         => phase' = phase]_vars

\* C4: Phase only moves along Idle -> Listening -> Processing -> Speaking
\* -> Idle or takes the shortcut Processing -> Idle: Processing is entered
\* only from the phases before it and Speaking only from Processing.
\* (Entering Processing straight from Idle, without an interim transcript,
\* is tolerated here.)
C4_PhaseOrder ==
    [][/\ (phase' = "processing" /\ phase # "processing") => phase \in {"idle", "listening"}
       /\ (phase' = "speaking" /\ phase # "speaking") => phase = "processing"
       /\ (phase' = "idle" /\ phase # "idle") => phase \in {"processing", "speaking"}]_vars

\* A step in which the connect() awaited by startSession of client c has
\* started the recognition and startSession has run to its end.
SessionConnected(c) == gumSess[c] /\ ~gumSess'[c] /\ lastEvent' = "connectSession"

TurnEnded == lastEvent \in {"spoken", "audioFailed", "audioLost", "replyFailed"}

\* A connect() issued by a restart timer has run to its end.
RestartAttempted == lastEvent \in {"connectRestart", "connectFailed", "connectDenied"}

C7_OneEntryPerUtterance ==
    (live /\ lastEvent = "final" /\ interims = 2)
      => /\ Cardinality(UserEntries) = nTurns
         /\ \A i \in UserEntries : transcripts[i].text \notin InterimTexts
         /\ transcripts[Len(transcripts)] = [role |-> "user", text |-> turns[nTurns].userText]
         /\ phase = "processing"

Protected(e) == e.role = "assistant" \/ e.text \notin InterimTexts

Annotated(e) == [role |-> "assistant", text |-> e.text \o AudioFailed]

\* C8: an entry holding a final user transcript or an assistant reply is
\* never removed and never overwritten (an assistant entry may at most be
\* replaced by itself with the audio-failed annotation).
C8_AppendOnly ==
    [][\A i \in 1..Len(transcripts) :
         Protected(transcripts[i])
           => /\ i <= Len(transcripts')
              /\ \/ transcripts'[i] = transcripts[i]
                 \/ transcripts[i].role = "assistant" /\ transcripts'[i] = Annotated(transcripts[i])]_vars

\* C9: once generation has produced reply R for a turn, the log holds an
\* assistant entry R or R (audio failed).
C9_ReplyRetained ==
    live => \A t \in Turns :
              turns[t].reply # ""
                => \E i \in 1..Len(transcripts) :
                      /\ transcripts[i].role = "assistant"
                      /\ transcripts[i].text \in {turns[t].reply, turns[t].reply \o AudioFailed}

\* C10: the recognition port is reopened for the next turn only when no
\* generation or synthesis is unresolved.
C10_ReopenAfterSpeaking ==
    [][(gumTimer' # gumTimer /\ lastEvent' = "connectRestart") => TurnsInFlight = {}]_vars

\* C11: after the unmount cleanup no sampling callback remains scheduled and
\* no microphone stream is live, whatever was pending when cleanup ran.
C11_TeardownReleases == mounted = "gone" => (loops = {} /\ micLive = 0)

\* A step in which generateReply or synthesizeAndPlay settles for turn t.
ResultArrives(t) == turns[t].pc \in InFlight /\ turns'[t].pc \notin {turns[t].pc, "hung"}

\* C12: a generation or synthesis result that arrives after the unmount
\* cleanup, or for a turn started by the recognition client of a session
\* that a later startSession() has replaced, changes neither the log, nor
\* Phase, nor the assistant feedback.
C12_LateResultDiscarded ==
    [][\A t \in Turns :
         (ResultArrives(t) /\ (mounted = "gone" \/ issuer[t] # clientRef))
           => (transcripts' = transcripts /\ phase' = phase
               /\ assistantFeedback' = assistantFeedback)]_vars

\* C13: every live microphone stream is the one its recognition client
\* holds: a connect() never acquires a stream while the client still holds
\* an earlier one, so there is at most one per client and none is leaked.
C13_ExclusiveMic == micLive = Cardinality({c \in Clients : mediaStream[c]})

\* A step in which generateAndSpeak runs its finally block.
TurnEnds == \E t \in Turns : turns[t].pc \in InFlight /\ turns'[t].pc = "done"

\* A step in which a restart connect() is called on client c.
RestartIssued(c) == gumTimer'[c] > gumTimer[c]

\* C14: the end of a turn closes the recognition port of the current client
\* and arms one restart timer without calling connect(); timers are armed
\* by nothing else; and connect() is called for a restart only by an
\* expiring timer, once, on the current client.
C14_RestartAfterDisconnect ==
    [][/\ TurnEnds => /\ timers' = timers + 1
                       /\ rec'[clientRef] \notin {"starting", "on"}
                       /\ ~mediaStream'[clientRef]
                       /\ \A c \in Clients : ~RestartIssued(c)
       /\ timers' > timers => TurnEnds
       /\ \A c \in Clients :
            RestartIssued(c) => /\ timers' = timers - 1
                                /\ c = clientRef
                                /\ gumTimer' = [gumTimer EXCEPT ![c] = @ + 1]]_vars

C14_Witness ==
    /\ lastEvent = "restartTimer"
    /\ timers = 0
    /\ gumTimer[clientRef] = 1
    /\ \E t \in Turns : turns[t].pc = "done"
    /\ rec[clientRef] \notin {"starting", "on"}
    /\ ~mediaStream[clientRef]

\* A step in which generateReply rejects for turn t.
GenFails(t) == turns[t].pc = "gen" /\ turns'[t].pc = "done"

SorryEntries == {[role |-> "assistant", text |-> SorryPrefix \o m] : m \in ErrMsgs}

\* C15: when generateReply rejects while Phase is Processing, one assistant
\* entry "Sorry, I ran into an issue: <message>" is appended to the log, the
\* turn has produced no reply and was never spoken, Phase becomes Idle and
\* one restart timer is armed.
C15_GenerationFailure ==
    [][\A t \in Turns :
         (GenFails(t) /\ live /\ phase = "processing")
           => /\ \E e \in SorryEntries : transcripts' = Append(transcripts, e)
              /\ turns'[t].reply = ""
              /\ ttsOwner' = ttsOwner
              /\ phase' = "idle"
              /\ ~isGenerating'
              /\ timers' = timers + 1]_vars

C15_Witness ==
    /\ lastEvent = "replyFailed"
    /\ phase = "idle"
    /\ timers = 1
    /\ Len(transcripts) = 2
    /\ transcripts[2] \in SorryEntries
    /\ transcripts[1].role = "user"

\* A step in which synthesizeAndPlay settles (resolves or rejects) for turn t.
SynthSettles(t) ==
    turns[t].pc \in {"ttsFetch", "ttsPlay", "ttsFallback"} /\ turns'[t].pc = "done"

\* C16: when synthesizeAndPlay settles while Phase is Speaking, by resolving
\* or by rejecting, Phase becomes Idle, isGenerating is cleared and one
\* restart timer is armed.
C16_SynthesisEndsTurn ==
    [][\A t \in Turns :
         (SynthSettles(t) /\ live /\ phase = "speaking")
           => /\ phase' = "idle"
              /\ ~isGenerating'
              /\ timers' = timers + 1
              /\ lastEvent' \in {"spoken", "audioFailed", "audioLost"}]_vars

C16_Witness ==
    /\ lastEvent = "audioFailed"
    /\ phase = "idle"
    /\ timers = 1
    /\ \E t \in Turns : turns[t].pc = "done" /\ turns[t].reply # ""

\* A step in which the playback of turn t ends (source.onended, or the end of
\* the fallback utterance) or its synthesis fails.
PlaybackOver(t) ==
    /\ turns'[t].pc = "done"
    /\ \/ turns[t].pc \in {"ttsPlay", "ttsFallback"}
       \/ turns[t].pc = "ttsFetch" /\ lastEvent' \in {"audioFailed", "audioLost"}

\* C17: Phase leaves Speaking only in a step in which the playback of a
\* spoken turn ends or its synthesis fails; receiving the audio bytes does
\* not end Speaking.
C17_SpeakingUntilPlayed ==
    [][(phase = "speaking" /\ phase' # "speaking") => \E t \in Turns : PlaybackOver(t)]_vars

\* A step in which the primary synthesis of turn t has failed and no
\* fallback speaks: synthesizeAndPlay settles straight from its fetch.
PrimaryFailsUnspoken(t) == turns[t].pc = "ttsFetch" /\ turns'[t].pc = "done"

\* C20: when the primary synthesis fails, either the browser fallback
\* speaks the reply, or the log ends the turn holding the reply annotated
\* with "(audio failed)".
C20_AudioFailureAnnotated ==
    [][\A t \in Turns :
         (PrimaryFailsUnspoken(t) /\ live)
           => \E i \in 1..Len(transcripts') :
                 transcripts'[i] = [role |-> "assistant", text |-> turns[t].reply \o AudioFailed]]_vars

\* C18: when no remote provider produced a reply, generateReply resolves
\* with a non-empty member of the canned table of the prompt's detected
\* language.
C18_CannedFallback ==
    (rpc = "done" /\ (outputText = "" \/ status # 200))
      => /\ replyOut # ""
         /\ detectLanguage(prompt) = "zh-CN" => replyOut \in empatheticResponsesCN
         /\ detectLanguage(prompt) = "en-US" => replyOut \in empatheticResponsesEN

C18_Witness ==
    /\ rpc = "done"
    /\ status = 429
    /\ tried = {"openai", "groq"}
    /\ failedProv = {"openai", "groq"}
    /\ Len(calls) = 3
    /\ prompt = "ZH wo hen nan guo"
    /\ replyOut \in empatheticResponsesCN

\* C19: with both providers configured, the second provider of the order is
\* tried exactly when the first one has failed (non-OK response, thrown
\* fetch, or no content), one after the other in the configured order.
C19_SequentialFallback ==
    (rpc \in {"respond", "done"} /\ env.openaiKey /\ env.groqKey)
      => /\ Order[2] \in tried <=> Order[1] \in failedProv
         /\ Order[2] \in tried => Order[1] \in tried

\* C25: when the prompt is detected as Chinese and no provider produced a
\* reply, the reply is drawn from the Chinese table and the voice chosen for
\* its synthesis is zh-CN-YunyangNeural.
C25_ChineseFallbackVoice ==
    (rpc = "voiced" /\ detectLanguage(prompt) = "zh-CN" /\ (outputText = "" \/ status # 200))
      => /\ replyOut \in empatheticResponsesCN
         /\ ttsVoice = "zh-CN-YunyangNeural"

C25_Witness ==
    /\ rpc = "voiced"
    /\ prompt = "ZH wo hen nan guo"
    /\ 10 * ChineseChars(prompt) > 3 * TextLength(prompt)
    /\ status = 429
    /\ failedProv = {"openai", "groq"}
    /\ replyOut = "ZH ni bu shi yi ge ren"
    /\ ttsVoice = "zh-CN-YunyangNeural"

\* Steps that report a denied microphone permission, and any error of the
\* recognition port.
DenyStep == lastEvent' = "connectDenied"
ErrorStep == lastEvent' \in {"onerror", "connectDenied", "connectFailed"}

\* No connect() is pending or scheduled, and no recognition can deliver a
\* result that would lead to one.
NoReconnect ==
    /\ timers = 0
    /\ \A c \in Clients : ~gumSess[c] /\ gumTimer[c] = 0 /\ rec[c] \in {"off", "finishing"}

\* C26: a denied microphone permission sets the status to 'error', starts no
\* sampling loop and schedules or issues no connect(); with no turn in
\* flight and no recognition running, no connect() follows at any later time.
C26_PermissionDenied ==
    /\ [][DenyStep
            => /\ connectionStatus' = "error"
               /\ loops' = loops /\ animationFrameRef' = animationFrameRef
               /\ timers' = timers
               /\ \A c \in Clients : gumTimer'[c] <= gumTimer[c] /\ (gumSess'[c] => gumSess[c])
               /\ rec' = rec /\ mediaStream' = mediaStream]_vars
    /\ []((lastEvent = "connectDenied" /\ NoReconnect /\ \A t \in Turns : turns[t].pc \notin InFlight)
            => []NoReconnect)
    /\ []((lastEvent = "connectDenied" /\ NoReconnect /\ loops = {}) => [](loops = {}))

C26_Witness ==
    /\ lastEvent = "connectDenied"
    /\ connectionStatus = "error"
    /\ nTurns = 0
    /\ loops = {}
    /\ NoReconnect

\* C27: handling an error of the recognition port sets the status to
\* 'error' and changes neither Phase nor the transcript log nor any other
\* displayed state, in whichever phase it arrives.
C27_ErrorOnlyStatus ==
    [][ErrorStep
         => /\ connectionStatus' = "error"
            /\ phase' = phase
            /\ transcripts' = transcripts
            /\ UNCHANGED <<userSubtitle, assistantFeedback, isGenerating>>]_vars

C27_Witness ==
    /\ lastEvent = "onerror"
    /\ connectionStatus = "error"
    /\ phase \in {"processing", "speaking"}
    /\ transcripts # <<>>

\* C28: after disconnect() a client holds no microphone stream and is not
\* listening; a second disconnect() right after the first changes nothing;
\* this includes a client that never connected.
C28_DisconnectIdempotent ==
    [][\A c \in Clients :
         lastEvent' = DisconnectEvent(c)
           => /\ ~mediaStream'[c]
              /\ rec'[c] \notin {"starting", "on"}
              /\ lastEvent = DisconnectEvent(c)
                   => UNCHANGED <<rec, mediaStream, micLive, closing, orphanWs>>]_vars

C28_Witness ==
    /\ lastEvent = DisconnectEvent(1)
    /\ rec[1] = "stopping"
    /\ ~mediaStream[1]
    /\ micLive = 0
    /\ clientRef = 1

\* The transcript log of the scenario, and the first utterance of a session
\* having been one interim result followed by the final "hello there".
ScenarioLog ==
    <<[role |-> "user", text |-> "hello there"], [role |-> "assistant", text |-> "I hear you."]>>

HelloHeard ==
    /\ nTurns = 1
    /\ interims = 1
    /\ uttFinal
    /\ turns[1].userText = "hello there"

\* The steps of the scenario: the final result arrives after the interim
\* "hel", the reply arrives, playback completes, the restart timer fires
\* and its connect() settles.
FinalArrives ==
    /\ transcripts = <<[role |-> "user", text |-> "hel" \o Ellipsis]>>
    /\ nTurns = 0
    /\ interims = 1
    /\ lastEvent' = "final"
    /\ turns'[1].userText = "hello there"

ReplyArrives ==
    /\ HelloHeard
    /\ turns[1].pc = "gen"
    /\ lastEvent' = "reply"
    /\ turns'[1].reply = "I hear you."

PlaybackCompletes ==
    /\ HelloHeard
    /\ turns[1].reply = "I hear you."
    /\ turns[1].pc \in {"ttsPlay", "ttsFallback"}
    /\ lastEvent' = "spoken"

Restarts ==
    /\ HelloHeard
    /\ turns[1].pc = "done"
    /\ transcripts = ScenarioLog
    /\ nTurns' = 1
    /\ lastEvent' \in {"restartTimer", "connectRestart"}

PollStep == detector'.polls = detector.polls + 1
Fires == detector'.fired = detector.fired + 1

\* The silence condition at the poll of a step: the sample is not above the
\* threshold and at least the duration has passed since the last loud one.
SilentLongEnough ==
    /\ detector'.sample <= detector.silenceThreshold
    /\ detector'.now - detector.lastSoundTime >= detector.silenceDuration

\* C21: the callback is raised only by a poll, only after a poll since
\* startSilenceDetection has read more than the threshold, and exactly at
\* the first poll at which the silence has lasted the duration; a sample
\* above the threshold resets the time of the last loud sample.
C21_SilenceDetector ==
    [][/\ Fires => (PollStep /\ detector.loud /\ SilentLongEnough)
       /\ (PollStep /\ detector.loud /\ SilentLongEnough) => Fires
       /\ (PollStep /\ detector'.sample > detector.silenceThreshold)
            => (detector'.lastSoundTime = detector'.now /\ ~Fires)]_vars

C21_Witness ==
    /\ detector.fired = 1
    /\ ~detector.running
    /\ detector.leaked = 0
    /\ detector.loud
    /\ detector.polls >= 3
    /\ detector.now - detector.lastSoundTime >= detector.silenceDuration

\* A transcript event of client c, and a connect() of c whose getUserMedia
\* settles.
Delivers(c) == nTurns' = nTurns + 1 /\ issuer'[nTurns'] = c
ConnectSettles(c) == (gumSess[c] /\ ~gumSess'[c]) \/ gumTimer'[c] < gumTimer[c]

\* C33: every transcript event of the Web Speech client is final and not
\* empty and ends the recognition that delivered it; a recognition that has
\* ended delivers nothing and runs again only through connect().
C33_OneFinalPerRecognition ==
    [][/\ lastEvent' # "interim"
       /\ interims' = 0
       /\ \A c \in Clients :
            /\ Delivers(c)
                 => /\ rec[c] \in {"on", "stopping"}
                    /\ rec'[c] = "finishing"
                    /\ lastEvent' = "final"
                    /\ turns'[nTurns'].userText \in UserTexts
                    /\ transcripts'[Len(transcripts')] = [role |-> "user", text |-> turns'[nTurns'].userText]
            /\ (rec[c] \in {"finishing", "off"} /\ rec'[c] \notin {"finishing", "off"})
                 => (ConnectSettles(c) /\ rec'[c] = "starting")]_vars

C33_Witness ==
    /\ lastEvent = "final"
    /\ nTurns = 2
    /\ issuer[1] = 1 /\ issuer[2] = 1
    /\ rec[1] = "finishing"
    /\ turns[1].pc = "done"
    /\ turns[2].pc = "gen"

\* C35: isGenerating is true exactly while Phase is Processing or Speaking.
C35_GeneratingIffBusy == isGenerating <=> phase \in {"processing", "speaking"}

\* The assistant entries turn t can have put into the log: its reply, the
\* reply with the '(audio failed)' mark, or an apology when it has no reply.
EntriesOfTurn(t) ==
    IF turns[t].reply # ""
    THEN {[role |-> "assistant", text |-> turns[t].reply],
          [role |-> "assistant", text |-> turns[t].reply \o AudioFailed]}
    ELSE SorryEntries

\* C37: each assistant entry of the log directly follows the user entry
\* holding the text that was passed to generation for that reply.
C37_ReplyFollowsItsQuestion ==
    \A i \in 1..Len(transcripts) :
        transcripts[i].role = "assistant"
          => /\ i > 1
             /\ \E t \in 1..nTurns :
                   /\ transcripts[i - 1] = UserEntry(turns[t].userText, TRUE)
                   /\ transcripts[i] \in EntriesOfTurn(t)

C34_MissingInputIs400 ==
    azure.pc = "done"
      => /\ NoStringText(azure.text) => (azure.status = 400 /\ azure.upstream = 0)
         /\ (azure.text = "hello there" /\ azure.key \in {Unset, ""})
              => /\ azure.status = 400
                 /\ azure.error = "Missing Azure Speech region or key"
                 /\ azure.upstream = 0

\* C32: after a start without a duration argument, a poll that finds the
\* latch set and 3500 ms (7 ticks) or more of silence raises the callback.
C32_DefaultDuration ==
    [][(PollStep /\ detector.durationArg = Undefined /\ detector.loud
          /\ detector'.sample <= detector.silenceThreshold
          /\ detector'.now - detector.lastSoundTime >= 7)
         => Fires]_vars

\* C36: the callback is raised at most once per startSilenceDetection call,
\* and not after stopSilenceDetection or close has been called.
C36_NoFireAfterStop ==
    [][Fires => (detector.armed /\ detector.firedSinceStart = 0)]_vars

\* C22: while Phase is Processing or Speaking after a Listening phase, the
\* values handed to the renderer are those of the last render of that
\* Listening phase, whatever intensities are sampled meanwhile.
C22_FeedbackFrozen ==
    (phase \in {"processing", "speaking"} /\ visual.fromListening)
      => Effective(visual, phase) = visual.shown

C22_Witness ==
    /\ phase = "speaking"
    /\ visual.fromListening
    /\ visual.shown.audioIntensity = 5
    /\ visual.audioIntensity = 10
    /\ Effective(visual, phase) = [audioIntensity |-> 5, brightness |-> 200, bloom |-> 375]

\* C31: the phase code is 0 in Idle and 1 in Listening, and in Processing
\* and Speaking it is the code of the latest phase that was Idle or
\* Listening.
C31_PhaseCodeFrozen ==
    /\ phase = "idle" => getPhaseNumber(visual, phase) = 0
    /\ phase = "listening" => getPhaseNumber(visual, phase) = 10
    /\ phase \in {"processing", "speaking"}
         => getPhaseNumber(visual, phase) = PhaseCode(visual.livePhase)

C23_SequentialPlayback ==
    /\ Cardinality(player.playing) <= 1
    /\ \A i, j \in 1..Len(player.started) : i < j => player.started[i] < player.started[j]

\* The frame analysed last is all zero.
AllZero(f) == \A i \in 1..Len(f) : f[i] = 0

\* C29: the intensity of every frame lies in [0, 1] (0..1280 in units of
\* 1/1280); it is RMS/128 when the RMS is below 128 and exactly 1 otherwise,
\* and 0 for a frame of zeros.
C29_IntensityNormalized ==
    dsp.frame # <<>>
      => /\ dsp.intensity >= 0 /\ dsp.intensity <= 1280
         /\ Rms10(dsp.frame) < 1280 => dsp.intensity = Rms10(dsp.frame)
         /\ Rms10(dsp.frame) >= 1280 => dsp.intensity = 1280
         /\ AllZero(dsp.frame) => dsp.intensity = 0

C29_Witness ==
    /\ dsp.frame # <<>>
    /\ \A i \in 1..Len(dsp.frame) : dsp.frame[i] = 255
    /\ dsp.intensity = 1280

\* C30: encoding a sample buffer to PCM16 and decoding it keeps the number
\* of samples; samples at or beyond full scale become -32768 and 32767, and
\* every encoded value lies within the 16-bit range.
C30_PCM16RoundTrip ==
    dsp.decoded # <<>>
      => /\ Len(dsp.pcm16) = Len(dsp.samples)
         /\ Len(dsp.decoded) = Len(dsp.samples)
         /\ \A i \in 1..Len(dsp.samples) :
               /\ dsp.samples[i] >= 1000 => dsp.pcm16[i] = 32767
               /\ dsp.samples[i] <= -1000 => dsp.pcm16[i] = -32768
               /\ dsp.pcm16[i] >= -32768 /\ dsp.pcm16[i] <= 32767
               /\ (dsp.samples[i] > -1000 /\ dsp.samples[i] < 1000)
                    => (dsp.pcm16[i] > -32768 /\ dsp.pcm16[i] < 32767)
               /\ dsp.decoded[i] = [num |-> dsp.pcm16[i], den |-> 32768]

C30_Witness ==
    /\ dsp.samples = <<3000, -1001>>
    /\ dsp.pcm16 = <<32767, -32768>>
    /\ Len(dsp.decoded) = 2

====
